---- MODULE Spec2Model ----
(***************************************************************************)
(* The server and IP reconcilers of terraform-provider-scaleway            *)
(* (scaleway/resource_server.go, scaleway/resource_ip.go) as a state       *)
(* machine: concurrent callers run the four verbs of each resource against *)
(* a provider that holds servers, their user data and the IP pool.  Every  *)
(* gateway call is one step; a call wrapped in retry() takes one step per  *)
(* attempt.                                                                *)
(***************************************************************************)
EXTENDS Integers, Sequences, FiniteSets, TLC

\* ------------------------------------------------------------- universe

\* The concurrent callers (goroutines of the lifecycle dispatcher).  Each
\* caller owns one server record and one IP record.
Procs == {"p1", "p2"}
NoProc == "nobody"

\* Identifiers the provider hands out; "" is the unset Identifier.  They are
\* opaque, so the one a caller's Create is given is fixed per caller: every
\* other assignment is this one with the identifiers renamed.
ServerIds == {"s1", "s2"}
IPIds == {"ip1", "ip2"}
NoId == ""
NewServerId(p) == IF p = "p1" THEN "s1" ELSE "s2"
NewIPId(p) == IF p = "p1" THEN "ip1" ELSE "ip2"

\* The address of a pool entry (addresses are unique within the pool).
Address(ip) == IF ip = "ip1" THEN "a1" ELSE "a2"
Addresses == {Address(ip) : ip \in IPIds}

\* User data: a map from keys to values; NoVal marks an absent key.
Keys == {"k1", "k2"}
Vals == {"x", "y"}
NoVal == "-"
EmptyUD == [k \in Keys |-> NoVal]
UDKeys(m) == {k \in Keys : m[k] # NoVal}

\* The desired user-data maps records declare.
DesiredUD ==
  { EmptyUD,
    [k \in Keys |-> IF k = "k1" THEN "x" ELSE NoVal],
    [k \in Keys |-> IF k = "k1" THEN "x" ELSE "y"],
    [k \in Keys |-> IF k = "k1" THEN "y" ELSE "x"] }

\* The volume lists records declare: size_in_gb of each volume.
VolumeLists == {<<>>, <<0>>, <<50>>}

\* The largest size_in_gb the schema accepts, and the sizes around the ends of
\* the range of sizes.
MaxSizeInGB == 150
BoundarySizes == {-1, 0, 1, MaxSizeInGB, MaxSizeInGB + 1}
BoundaryVolumeLists == {<<>>} \cup {<<v>> : v \in BoundarySizes}

\* What a run reconciles: the callers that run concurrently, and the user_data
\* maps and volume lists their records declare.  Concurrent runs every caller
\* with few declarations; Sequential runs one caller with all of them.
\* The attributes Update patches the server with, and what a record declares
\* for them.  A call of Update comes with the set of attributes that changed
\* (d.HasChange) and the declared values (d.Get).  The value of an attribute
\* that did not change is of no account and is left at NoDecl's; a changed
\* attribute is declared with NewDecl's value, and changed tags with either
\* a list of one tag or the empty list.
PatchAttrs == {"name", "tags", "enable_ipv6", "dynamic_ip_required", "security_group"}
NoDecl ==
  [ name |-> "n1", tags |-> <<>>, enable_ipv6 |-> FALSE,
    dynamic_ip_required |-> FALSE, security_group |-> "" ]
NewDecl ==
  [ name |-> "n2", tags |-> <<"t1">>, enable_ipv6 |-> TRUE,
    dynamic_ip_required |-> TRUE, security_group |-> "sg1" ]
NoChange == [ch |-> {}, d |-> NoDecl]
Changes ==
  { [ch |-> ch,
     d |-> [a \in PatchAttrs |->
              IF a = "tags" THEN (IF a \in ch THEN t ELSE NoDecl[a])
              ELSE IF a \in ch THEN NewDecl[a] ELSE NoDecl[a]]] :
      ch \in SUBSET PatchAttrs, t \in {<<>>, <<"t1">>} }

\* Security-group rules.  A record declares action, direction, ip_range,
\* protocol and port; the provider's rule (api.ScalewaySecurityGroupRule) has
\* the fields ID, Action, Direction, IPRange, Protocol and DestPortFrom.
RuleIds == {"r1", "r2"}
NewRuleId(p) == IF p = "p1" THEN "r1" ELSE "r2"
RuleDecls ==
  [ action : {"accept", "drop"}, direction : {"inbound"}, ip_range : {"0.0.0.0/0"},
    protocol : {"TCP"}, port : {80, 443} ]
NoRuleDecl ==
  [action |-> "", direction |-> "", ip_range |-> "", protocol |-> "", port |-> 0]
NoRule ==
  [ ID |-> NoId, Action |-> "", Direction |-> "", IPRange |-> "", Protocol |-> "",
    DestPortFrom |-> 0 ]
Sgr0 ==
  [ rules |-> [r \in RuleIds |-> NoRule],   \* provider: the group's rules
    id |-> [p \in Procs |-> NoId],          \* d.Id() of each caller's rule record
    decl |-> [p \in Procs |-> NoRuleDecl],  \* what the record declares
    attrs |-> [p \in Procs |-> NoRuleDecl] ] \* what Read has set in the record

\* Attempts retry() makes before it gives up with the last error.
MaxAttempts == 2

\* The verbs the dispatcher calls.
ServerVerbs == {"ServerCreate", "ServerRead", "ServerUpdate", "ServerDelete"}
IPVerbs == {"IPCreate", "IPRead", "IPUpdate", "IPDelete"}
Verbs == ServerVerbs \cup IPVerbs

Concurrent ==
  [ callers |-> Procs,
    verbs |-> [p \in Procs |-> Verbs],
    maps |-> {EmptyUD, [k \in Keys |-> IF k = "k1" THEN "x" ELSE NoVal]},
    volumes |-> {<<>>, <<50>>},
    changes |-> {NoChange},
    attempts |-> 1 ]
Sequential ==
  [ callers |-> {"p1"}, verbs |-> [p \in Procs |-> Verbs],
    maps |-> DesiredUD, volumes |-> VolumeLists,
    changes |-> {NoChange},
    attempts |-> MaxAttempts ]
Boundary == [Sequential EXCEPT !.volumes = BoundaryVolumeLists]
Patching ==
  [Sequential EXCEPT !.changes = Changes,
                     !.maps = {EmptyUD, [k \in Keys |-> IF k = "k1" THEN "x" ELSE NoVal]},
                     !.volumes = {<<>>, <<50>>}]
\* One caller, with a server, an IP and a security-group rule record.
RuleVerbs == {"RuleCreate", "RuleRead", "RuleDelete"}
WithRules ==
  [Sequential EXCEPT !.verbs = [p \in Procs |-> Verbs \cup RuleVerbs],
                     !.maps = {EmptyUD, [k \in Keys |-> IF k = "k1" THEN "x" ELSE NoVal]},
                     !.volumes = {<<>>, <<50>>}]
\* Two callers, one with a server record and one with an IP record.
ServerAndIP ==
  [Concurrent EXCEPT !.verbs = [p \in Procs |-> IF p = "p1" THEN ServerVerbs ELSE IPVerbs]]

\* Errors a verb can return.  "nil" is success; "notfound" is an api.APIError
\* with StatusCode 404, a terminal error; "transient" is a retryable error;
\* "noip" and "patchfail" are the fmt.Errorf values of attachIP and of
\* resourceScalewayServerUpdate; "poweronfail" is the error of poweronServer.
Errs == {"nil", "notfound", "transient", "noip", "patchfail", "poweronfail"}

VARIABLES
  config,    \* what the run reconciles; it never changes
  mu,        \* the process-wide mutex: its holder, or NoProc
  servers,   \* provider: server id -> "absent" | "stopped" | "running"
  userdata,  \* provider: server id -> user-data map
  pool,      \* provider: IP id -> "absent" | "free" | the server it is attached to
  srvId,     \* d.Id() of each caller's server record
  ipId,      \* d.Id() of each caller's IP record
  pc,        \* each caller's position
  verb,      \* the verb each caller is executing, "none" when idle
  loc,       \* each caller's local variables of the running verb
  last,      \* the return the step just taken made, if it was a return
  sgr        \* security-group rules: the provider's, and each caller's record

vars == <<config, mu, servers, userdata, pool, srvId, ipId, pc, verb, loc, last, sgr>>

\* ------------------------------------------------------------- patch payload

\* A field of api.ServerPatchDefinition: a pointer, nil or to a value.
Nil(zero) == [set |-> FALSE, val |-> zero]
Ptr(v) == [set |-> TRUE, val |-> v]

\* var req api.ServerPatchDefinition: every field nil.
EmptyPatch ==
  [ name |-> Nil(""), tags |-> Nil(<<>>), enable_ipv6 |-> Nil(FALSE),
    dynamic_ip_required |-> Nil(FALSE), security_group |-> Nil("") ]

\* d.GetOk("tags"): ok is false for the zero value, the empty list.
GetOkTags(d) == d.tags # <<>>

\* The payload Update builds from the changed attributes.
ServerPatchDefinition(ch, d) ==
  [ name |-> IF "name" \in ch THEN Ptr(d.name) ELSE Nil(""),
    tags |-> IF "tags" \in ch /\ GetOkTags(d) THEN Ptr(d.tags) ELSE Nil(<<>>),
    enable_ipv6 |-> IF "enable_ipv6" \in ch THEN Ptr(d.enable_ipv6) ELSE Nil(FALSE),
    dynamic_ip_required |->
      IF "dynamic_ip_required" \in ch THEN Ptr(d.dynamic_ip_required) ELSE Nil(FALSE),
    security_group |->
      IF "security_group" \in ch THEN Ptr(d.security_group) ELSE Nil("") ]

\* ------------------------------------------------------------- locals

Loc0 ==
  [ att |-> 0,            \* failed attempts of the retry() in progress
    id0 |-> NoId,         \* d.Id() when the verb was called
    perr |-> "nil",       \* err of poweronServer, pending in Create
    ip |-> NoId,          \* declared public_ip
    tgt |-> NoId,         \* ip.ID the pool scan selected
    nact |-> 0,           \* attach/detach operations started by the verb
    hcUD |-> FALSE,       \* d.HasChange("user_data")
    m |-> EmptyUD,        \* desired user_data
    am |-> EmptyUD,       \* user data readUserDatas returned
    todoDel |-> {},       \* keys of am the delete loop has yet to visit
    todoPat |-> {},       \* keys of m the patch loop has yet to visit
    calledDel |-> {},     \* keys DeleteUserdata was called for
    calledPat |-> {},     \* keys PatchUserdata was called for
    vols |-> <<>>,        \* size_in_gb of the declared volumes yet to visit
    st |-> "",            \* d.Get("state") once Create has read it
    ch |-> {},            \* attributes d.HasChange answers true for
    d |-> NoDecl,         \* d.Get of those attributes
    req |-> EmptyPatch,   \* req, the payload of PatchServer
    rerun |-> FALSE,      \* the record's previous verb was an Update that ran
                          \* the user-data step and returned nil, and this
                          \* Update declares the same user_data
    srv |-> NoId,         \* declared server of the IP record
    miss |-> FALSE,       \* Update's scan found no entry with the declared address
    nf |-> FALSE ]        \* the Read's fetch-by-id was answered 404

\* What is kept of a returned verb: the verb, the error it returned, d.Id()
\* when it was called, whether its Read was answered 404, whether (a Create)
\* PostServer had succeeded and, of an Update that returned nil, whether it ran
\* the user-data step and the desired user_data it ran it with.
Last0 ==
  [ proc |-> NoProc, verb |-> "none", err |-> "nil", id0 |-> NoId, nf |-> FALSE,
    created |-> FALSE, hcUD |-> FALSE, m |-> EmptyUD, miss |-> FALSE ]

\* ------------------------------------------------------------- retry

\* What one attempt of a call wrapped in retry() can end in, after `att`
\* failed attempts: the provider's answer (its result, or a terminal error such
\* as a 404, which is returned at once), or a retryable error, which is
\* retried ("again") or, the budget spent, returned ("transient").
\* (Variant: one attempt more than the budget.)
RetryOutcomes_OneMore(att) ==
  {"answer"} \cup (IF att < config.attempts THEN {"again"} ELSE {"transient"})

RetryOutcomes(att) ==
  {"answer"} \cup (IF att + 1 < config.attempts THEN {"again"} ELSE {"transient"})

\* What a call made without retry() can end in.
DirectOutcomes == {"answer", "transient"}

\* ------------------------------------------------------------- mutex

\* mu.Lock(): blocks until the mutex is free.
Lock(p) ==
  /\ mu = NoProc
  /\ mu' = p

\* defer mu.Unlock(): runs when the function that locked returns.
\* (Variant: a return that leaves the mutex locked.)
DeferredUnlock_Leak(p) == mu

DeferredUnlock(p) == IF mu = p THEN NoProc ELSE mu

\* ------------------------------------------------------------- control

\* The dispatcher calls verb v on caller p's record; l holds the declarations
\* the verb is called with.
Call(p, v, first, l) ==
  /\ p \in config.callers
  /\ v \in config.verbs[p]
  /\ pc[p] = "idle"
  /\ pc' = [pc EXCEPT ![p] = first]
  /\ verb' = [verb EXCEPT ![p] = v]
  /\ loc' = [loc EXCEPT ![p] =
       [l EXCEPT !.id0 = IF v \in ServerVerbs THEN srvId[p] ELSE ipId[p]]]
  /\ last' = Last0
  /\ UNCHANGED <<config, mu, servers, userdata, pool, sgr>>

\* The verb returns e; l are its locals on return.
Returned(p, e, l) ==
  /\ pc' = [pc EXCEPT ![p] = "idle"]
  /\ verb' = [verb EXCEPT ![p] = "none"]
  /\ loc' = [loc EXCEPT ![p] = Loc0]
  /\ last' =
       [ proc |-> p, verb |-> verb[p], err |-> e, id0 |-> l.id0, nf |-> l.nf,
         created |-> verb[p] = "ServerCreate" /\ pc[p] \notin {"sc_vol", "sc_post"},
         hcUD |-> verb[p] = "ServerUpdate" /\ e = "nil" /\ l.hcUD,
         m |-> IF verb[p] = "ServerUpdate" /\ e = "nil" /\ l.hcUD THEN l.m ELSE EmptyUD,
         miss |-> l.miss ]
  /\ UNCHANGED config

ReturnCore(p, e, l) ==
  /\ Returned(p, e, l)
  /\ UNCHANGED sgr

\* A return that runs the deferred mu.Unlock() of the function that locked.
Return(p, e, l) ==
  /\ ReturnCore(p, e, l)
  /\ mu' = DeferredUnlock(p)

\* The verb moves on to position next with locals l.
Moved(p, next, l) ==
  /\ pc' = [pc EXCEPT ![p] = next]
  /\ loc' = [loc EXCEPT ![p] = l]
  /\ last' = Last0
  /\ UNCHANGED <<config, verb>>

Goto(p, next, l) ==
  /\ Moved(p, next, l)
  /\ UNCHANGED sgr

\* The locals that are dead once the verb's own steps are over and it calls Read.
ForRead(l) ==
  [l EXCEPT !.att = 0, !.perr = "nil", !.ip = NoId, !.tgt = NoId,
            !.todoDel = {}, !.todoPat = {}, !.vols = <<>>, !.st = "",
            !.srv = NoId]

\* The locals Read itself still has a use for.
InRead(l) ==
  [Loc0 EXCEPT !.id0 = l.id0, !.hcUD = l.hcUD, !.m = l.m, !.miss = l.miss]

\* A failed attempt of a retry() that has budget left: the call is made again.
Again(p) ==
  /\ loc' = [loc EXCEPT ![p].att = @ + 1]
  /\ last' = Last0
  /\ UNCHANGED <<config, mu, servers, userdata, pool, srvId, ipId, pc, verb, sgr>>

Start ==
  /\ sgr = Sgr0
  /\ mu = NoProc
  /\ servers = [s \in ServerIds |-> "absent"]
  /\ userdata = [s \in ServerIds |-> EmptyUD]
  /\ pool = [i \in IPIds |-> "absent"]
  /\ srvId = [p \in Procs |-> NoId]
  /\ ipId = [p \in Procs |-> NoId]
  /\ pc = [p \in Procs |-> "idle"]
  /\ verb = [p \in Procs |-> "none"]
  /\ loc = [p \in Procs |-> Loc0]
  /\ last = Last0

Init == Start /\ config = Concurrent

InitSeq == Start /\ config = Sequential

\* ------------------------------------------------------------- provider

ServerExists(id) == id \in ServerIds /\ servers[id] # "absent"
IPExists(id) == id \in IPIds /\ pool[id] # "absent"

\* The pool once server s is gone: its addresses are released.
Released(s) == [i \in IPIds |-> IF pool[i] = s THEN "free" ELSE pool[i]]

\* ------------------------------------------------------------- server Read

\* The dispatcher calls Read on a server record that has an Identifier.
resourceScalewayServerRead_Call(p) ==
  /\ srvId[p] # NoId
  /\ Call(p, "ServerRead", "sr_get", Loc0)
  /\ UNCHANGED <<srvId, ipId>>

\* Importer (schema.ImportStatePassthrough): the record takes the identifier
\* the user names, whether or not the provider knows it, and is then Read.
resourceScalewayServer_Import(p) ==
  /\ srvId[p] = NoId
  /\ srvId' = [srvId EXCEPT ![p] = NewServerId(p)]
  /\ Call(p, "ServerRead", "sr_get", Loc0)
  /\ UNCHANGED ipId

\* retry(GetServer(d.Id())); a 404 clears the Identifier and is no error.
\* (Variant: the 404 is returned like any other error.)
resourceScalewayServerRead_GetServer_Surfaces404(p) ==
  /\ pc[p] = "sr_get"
  /\ \E o \in RetryOutcomes(loc[p].att) :
       IF o = "again" THEN Again(p)
       ELSE IF o = "answer" /\ ServerExists(srvId[p])
       THEN /\ Goto(p, "sr_ud", InRead(loc[p]))
            /\ UNCHANGED <<mu, servers, userdata, pool, srvId, ipId>>
       ELSE IF o = "answer"
       THEN /\ Return(p, "notfound", [loc[p] EXCEPT !.nf = TRUE])
            /\ UNCHANGED <<servers, userdata, pool, srvId, ipId>>
       ELSE /\ Return(p, o, loc[p])
            /\ UNCHANGED <<servers, userdata, pool, srvId, ipId>>

resourceScalewayServerRead_GetServer(p) ==
  /\ pc[p] = "sr_get"
  /\ \E o \in RetryOutcomes(loc[p].att) :
       IF o = "again" THEN Again(p)
       ELSE IF o = "answer" /\ ServerExists(srvId[p])
       THEN /\ Goto(p, "sr_ud", InRead(loc[p]))
            /\ UNCHANGED <<mu, servers, userdata, pool, srvId, ipId>>
       ELSE IF o = "answer"
       THEN /\ srvId' = [srvId EXCEPT ![p] = NoId]
            /\ Return(p, "nil", [loc[p] EXCEPT !.nf = TRUE])
            /\ UNCHANGED <<servers, userdata, pool, ipId>>
       ELSE /\ Return(p, o, loc[p])
            /\ UNCHANGED <<servers, userdata, pool, srvId, ipId>>

\* readUserDatas: GetUserdatas, then one GetUserdata per key, none of them
\* under retry(); the first error is returned as it is.  The calls only read
\* the record's own server, so they are taken as one step.
readUserDatas(p) ==
  /\ pc[p] = "sr_ud"
  /\ \E o \in DirectOutcomes :
       /\ Return(p, IF o # "answer" THEN o
                    ELSE IF ServerExists(srvId[p]) THEN "nil" ELSE "notfound",
                 loc[p])
       /\ UNCHANGED <<servers, userdata, pool, srvId, ipId>>

\* ------------------------------------------------------------- attach/detach

\* The pool entries GetIPS lists.
PoolEntries == {i \in IPIds : pool[i] # "absent"}

\* for _, ip := range ips.IPS { if ip.Address == IPAddress ... }
AddressMatches(addr) == {i \in PoolEntries : Address(i) = addr}

\* for _, ip := range ips.IPS { if ip.Server != nil && ip.Server.Identifier == d.Id() ... }
AttachedTo(id) == {i \in PoolEntries : pool[i] = id}

\* ------------------------------------------------------------- server Create

\* ValidateFunc of size_in_gb: `if value > 150` is the only error.
ValidateSizeInGB(value) == ~(value > MaxSizeInGB)

\* Create is called on a record whose volume list passed the schema's validation.
resourceScalewayServerCreate_Call(p) ==
  /\ srvId[p] = NoId
  /\ \E vs \in config.volumes :
       /\ \A i \in DOMAIN vs : ValidateSizeInGB(vs[i])
       /\ Call(p, "ServerCreate", "sc_lock", [Loc0 EXCEPT !.vols = vs])
  /\ UNCHANGED <<srvId, ipId>>

\* sizeInGB := uint64(volume["size_in_gb"].(int)); sizeInGB > 0.  The
\* conversion maps a negative int v to v + 2^64, which is positive, and keeps
\* the others, so the test holds for every size but 0.
Uint64IsPositive(v) == IF v < 0 THEN TRUE ELSE v > 0

\* if sizeInGB > 0 { ... PostVolume ... }: the volumes that get a call.
WithVolumeCall(vs) == SelectSeq(vs, Uint64IsPositive)

\* mu.Lock(); defer mu.Unlock(); then d.GetOk("volume").
resourceScalewayServerCreate_Lock(p) ==
  /\ pc[p] = "sc_lock"
  /\ Lock(p)
  /\ Goto(p, IF WithVolumeCall(loc[p].vols) # <<>> THEN "sc_vol" ELSE "sc_post",
          [loc[p] EXCEPT !.vols = WithVolumeCall(@)])
  /\ UNCHANGED <<servers, userdata, pool, srvId, ipId>>

\* retry(PostVolume(...)) for the next declared volume; an error aborts Create.
resourceScalewayServerCreate_PostVolume(p) ==
  /\ pc[p] = "sc_vol"
  /\ \E o \in RetryOutcomes(loc[p].att) :
       IF o = "again" THEN Again(p)
       ELSE IF o = "answer"
       THEN /\ Goto(p, IF Tail(loc[p].vols) # <<>> THEN "sc_vol" ELSE "sc_post",
                    [loc[p] EXCEPT !.att = 0, !.vols = Tail(@)])
            /\ UNCHANGED <<mu, servers, userdata, pool, srvId, ipId>>
       ELSE /\ Return(p, o, loc[p])
            /\ UNCHANGED <<servers, userdata, pool, srvId, ipId>>

\* if d.Get("state") != "stopped": power on, and attach the declared public_ip;
\* then `if err != nil { return err }` and Read.
\* (Variant: the server is powered on whatever state is declared.)
ServerCreate_AfterUserData_AlwaysPowersOn(p, l) ==
  \E st \in {"running", "stopped"}, ip \in Addresses \cup {NoId} :
    Goto(p, "sc_power", [l EXCEPT !.att = 0, !.m = EmptyUD, !.calledPat = {},
                                  !.ip = ip, !.st = st])

ServerCreate_AfterUserData(p, l) ==
  \E st \in {"running", "stopped"}, ip \in Addresses \cup {NoId} :
    IF st # "stopped"
    THEN Goto(p, "sc_power", [l EXCEPT !.att = 0, !.m = EmptyUD, !.calledPat = {},
                                       !.ip = ip, !.st = st])
    ELSE Goto(p, "sr_get", ForRead([l EXCEPT !.m = EmptyUD, !.calledPat = {}]))

\* retry(PostServer(server)); d.SetId(id); then d.GetOk("user_data").
\* (Variant: the mutex is released as soon as the PostServer call is over.)
resourceScalewayServerCreate_PostServer_Unlocks(p) ==
  /\ pc[p] = "sc_post"
  /\ \E o \in RetryOutcomes(loc[p].att) :
       IF o = "again" THEN Again(p)
       ELSE IF o = "answer"
       THEN /\ servers' = [servers EXCEPT ![NewServerId(p)] = "stopped"]
            /\ userdata' = [userdata EXCEPT ![NewServerId(p)] = EmptyUD]
            /\ srvId' = [srvId EXCEPT ![p] = NewServerId(p)]
            /\ mu' = NoProc
            /\ \E m \in config.maps :
                 IF UDKeys(m) # {}
                 THEN Goto(p, "sc_ud", [loc[p] EXCEPT !.att = 0, !.m = m,
                                                      !.todoPat = UDKeys(m)])
                 ELSE ServerCreate_AfterUserData(p, loc[p])
            /\ UNCHANGED <<pool, ipId>>
       ELSE /\ Return(p, o, loc[p])
            /\ UNCHANGED <<servers, userdata, pool, srvId, ipId>>

resourceScalewayServerCreate_PostServer(p) ==
  /\ pc[p] = "sc_post"
  /\ \E o \in RetryOutcomes(loc[p].att) :
       IF o = "again" THEN Again(p)
       ELSE IF o = "answer"
       THEN /\ servers' = [servers EXCEPT ![NewServerId(p)] = "stopped"]
            /\ userdata' = [userdata EXCEPT ![NewServerId(p)] = EmptyUD]
            /\ srvId' = [srvId EXCEPT ![p] = NewServerId(p)]
            /\ \E m \in config.maps :
                 IF UDKeys(m) # {}
                 THEN Goto(p, "sc_ud", [loc[p] EXCEPT !.att = 0, !.m = m,
                                                      !.todoPat = UDKeys(m)])
                 ELSE ServerCreate_AfterUserData(p, loc[p])
            /\ UNCHANGED <<mu, pool, ipId>>
       ELSE /\ Return(p, o, loc[p])
            /\ UNCHANGED <<servers, userdata, pool, srvId, ipId>>

\* for k, v := range ud { PatchUserdata(id, k, sv, false) }: no retry().
\* (Variant: a failed write unsets the Identifier before it returns.)
resourceScalewayServerCreate_PatchUserdata_UnsetsId(p) ==
  /\ pc[p] = "sc_ud"
  /\ \E k \in loc[p].todoPat, o \in DirectOutcomes :
       IF o = "answer" /\ ServerExists(srvId[p])
       THEN /\ userdata' = [userdata EXCEPT ![srvId[p]][k] = loc[p].m[k]]
            /\ LET l == [loc[p] EXCEPT !.todoPat = @ \ {k}, !.calledPat = @ \cup {k}]
               IN  IF l.todoPat # {} THEN Goto(p, "sc_ud", l)
                   ELSE ServerCreate_AfterUserData(p, l)
            /\ UNCHANGED <<mu, servers, pool, srvId, ipId>>
       ELSE /\ srvId' = [srvId EXCEPT ![p] = NoId]
            /\ Return(p, IF o = "answer" THEN "notfound" ELSE o,
                      [loc[p] EXCEPT !.calledPat = @ \cup {k}])
            /\ UNCHANGED <<servers, userdata, pool, ipId>>

resourceScalewayServerCreate_PatchUserdata(p) ==
  /\ pc[p] = "sc_ud"
  /\ \E k \in loc[p].todoPat, o \in DirectOutcomes :
       IF o = "answer" /\ ServerExists(srvId[p])
       THEN /\ userdata' = [userdata EXCEPT ![srvId[p]][k] = loc[p].m[k]]
            /\ LET l == [loc[p] EXCEPT !.todoPat = @ \ {k}, !.calledPat = @ \cup {k}]
               IN  IF l.todoPat # {} THEN Goto(p, "sc_ud", l)
                   ELSE ServerCreate_AfterUserData(p, l)
            /\ UNCHANGED <<mu, servers, pool, srvId, ipId>>
       ELSE /\ Return(p, IF o = "answer" THEN "notfound" ELSE o,
                      [loc[p] EXCEPT !.calledPat = @ \cup {k}])
            /\ UNCHANGED <<servers, userdata, pool, srvId, ipId>>

\* err = poweronServer(scaleway, id): the error is kept, not returned yet.
\* (Variant: Create returns the error of poweronServer at once.)
poweronServer_ReturnsAtOnce(p) ==
  /\ pc[p] = "sc_power"
  /\ \E o \in DirectOutcomes :
       LET e == IF o = "answer" /\ ServerExists(srvId[p]) THEN "nil"
                ELSE "poweronfail"
       IN  /\ servers' = IF e = "nil" THEN [servers EXCEPT ![srvId[p]] = "running"]
                         ELSE servers
           /\ IF e # "nil"
              THEN Return(p, e, loc[p])
              ELSE IF loc[p].ip # NoId
              THEN /\ Goto(p, "sc_getips", [loc[p] EXCEPT !.perr = e])
                   /\ UNCHANGED mu
              ELSE /\ Goto(p, "sr_get", ForRead(loc[p]))
                   /\ UNCHANGED mu
           /\ UNCHANGED <<userdata, pool, srvId, ipId>>

poweronServer(p) ==
  /\ pc[p] = "sc_power"
  /\ \E o \in DirectOutcomes :
       LET e == IF o = "answer" /\ ServerExists(srvId[p]) THEN "nil"
                ELSE "poweronfail"
       IN  /\ servers' = IF e = "nil" THEN [servers EXCEPT ![srvId[p]] = "running"]
                         ELSE servers
           /\ IF loc[p].ip # NoId
              THEN /\ Goto(p, "sc_getips", [loc[p] EXCEPT !.perr = e])
                   /\ UNCHANGED mu
              ELSE IF e # "nil"
              THEN Return(p, e, loc[p])
              ELSE /\ Goto(p, "sr_get", ForRead(loc[p]))
                   /\ UNCHANGED mu
           /\ UNCHANGED <<userdata, pool, srvId, ipId>>

\* attachIP: ips, err := GetIPS(), no retry(); then the scan for the address.
attachIP_GetIPS(p) ==
  /\ pc[p] = "sc_getips"
  /\ \E o \in DirectOutcomes :
       IF o = "answer" /\ AddressMatches(loc[p].ip) # {}
       THEN /\ \E i \in AddressMatches(loc[p].ip) :
                 Goto(p, "sc_attach", [loc[p] EXCEPT !.tgt = i])
            /\ UNCHANGED <<mu, servers, userdata, pool, srvId, ipId>>
       ELSE /\ Return(p, IF o = "answer" THEN "noip" ELSE o, loc[p])
            /\ UNCHANGED <<servers, userdata, pool, srvId, ipId>>

\* attachIP: return AttachIP(ip.ID, serverID), no retry(); then the pending
\* power-on error, if any, is returned.
attachIP_AttachIP(p) ==
  /\ pc[p] = "sc_attach"
  /\ \E o \in DirectOutcomes :
       IF o = "answer" /\ IPExists(loc[p].tgt) /\ ServerExists(srvId[p])
       THEN /\ pool' = [pool EXCEPT ![loc[p].tgt] = srvId[p]]
            /\ IF loc[p].perr # "nil"
               THEN Return(p, loc[p].perr, [loc[p] EXCEPT !.nact = @ + 1])
               ELSE /\ Goto(p, "sr_get", ForRead([loc[p] EXCEPT !.nact = @ + 1]))
                    /\ UNCHANGED mu
            /\ UNCHANGED <<servers, userdata, srvId, ipId>>
       ELSE /\ Return(p, IF o = "answer" THEN "notfound" ELSE o,
                      [loc[p] EXCEPT !.nact = @ + 1])
            /\ UNCHANGED <<servers, userdata, pool, srvId, ipId>>

\* ------------------------------------------------------------- server Update

resourceScalewayServerUpdate_Call(p) ==
  /\ srvId[p] # NoId
  /\ \E hc \in BOOLEAN, m \in config.maps, c \in config.changes :
       Call(p, "ServerUpdate", "su_lock",
            [Loc0 EXCEPT !.ch = c.ch, !.d = c.d,
                         !.hcUD = hc,
                         !.m = IF hc THEN m ELSE EmptyUD,
                         !.rerun = /\ last.proc = p
                                   /\ last.verb = "ServerUpdate"
                                   /\ last.err = "nil"
                                   /\ last.hcUD
                                   /\ hc => m = last.m])
  /\ UNCHANGED <<srvId, ipId>>

\* mu.Lock(); defer mu.Unlock().  (Variant: Update runs without the mutex.)
resourceScalewayServerUpdate_Lock_Skipped(p) ==
  /\ pc[p] = "su_lock"
  /\ Goto(p, "su_patch", loc[p])
  /\ UNCHANGED <<mu, servers, userdata, pool, srvId, ipId>>

\* mu.Lock(); defer mu.Unlock(); then req is built.
resourceScalewayServerUpdate_Lock(p) ==
  /\ pc[p] = "su_lock"
  /\ Lock(p)
  /\ Goto(p, "su_patch",
          [loc[p] EXCEPT !.req = ServerPatchDefinition(loc[p].ch, loc[p].d)])
  /\ UNCHANGED <<servers, userdata, pool, srvId, ipId>>

\* if d.HasChange("user_data") { ... } else straight to Read.
ServerUpdate_UserDataStep(p, l) ==
  Goto(p, IF l.hcUD THEN "su_udread" ELSE "sr_get", ForRead(l))

\* retry(PatchServer(d.Id(), req)), always called; then d.HasChange("public_ip").
resourceScalewayServerUpdate_PatchServer(p) ==
  /\ pc[p] = "su_patch"
  /\ \E o \in RetryOutcomes(loc[p].att) :
       IF o = "again" THEN Again(p)
       ELSE IF o = "answer" /\ ServerExists(srvId[p])
       THEN /\ \E hc \in BOOLEAN, ip \in Addresses \cup {NoId} :
                 LET l == [loc[p] EXCEPT !.ch = {}, !.d = NoDecl, !.req = EmptyPatch]
                 IN  IF hc THEN Goto(p, "su_getips", [l EXCEPT !.att = 0, !.ip = ip])
                     ELSE ServerUpdate_UserDataStep(p, l)
            /\ UNCHANGED <<mu, servers, userdata, pool, srvId, ipId>>
       ELSE /\ Return(p, "patchfail", loc[p])
            /\ UNCHANGED <<servers, userdata, pool, srvId, ipId>>

\* retry(GetIPS()); then the scan: for a declared address the first entry with
\* that address is attached, for none the first entry attached to this server
\* is detached.
\* (Variant: a declared address that no entry has is an error, as in attachIP.)
resourceScalewayServerUpdate_GetIPS_FailsOnMiss(p) ==
  /\ pc[p] = "su_getips"
  /\ \E o \in RetryOutcomes(loc[p].att) :
       IF o = "again" THEN Again(p)
       ELSE IF o = "answer" /\ ~(loc[p].ip # NoId /\ AddressMatches(loc[p].ip) = {})
       THEN /\ IF loc[p].ip # NoId
               THEN \E i \in AddressMatches(loc[p].ip) :
                      Goto(p, "su_attach", [loc[p] EXCEPT !.att = 0, !.ip = NoId, !.tgt = i])
               ELSE IF AttachedTo(srvId[p]) # {}
                    THEN \E i \in AttachedTo(srvId[p]) :
                           Goto(p, "su_detach", [loc[p] EXCEPT !.att = 0, !.tgt = i])
                    ELSE ServerUpdate_UserDataStep(p, loc[p])
            /\ UNCHANGED <<mu, servers, userdata, pool, srvId, ipId>>
       ELSE /\ Return(p, IF o = "answer" THEN "noip" ELSE o, loc[p])
            /\ UNCHANGED <<servers, userdata, pool, srvId, ipId>>

resourceScalewayServerUpdate_GetIPS(p) ==
  /\ pc[p] = "su_getips"
  /\ \E o \in RetryOutcomes(loc[p].att) :
       IF o = "again" THEN Again(p)
       ELSE IF o = "answer"
       THEN /\ IF loc[p].ip # NoId
               THEN IF AddressMatches(loc[p].ip) # {}
                    THEN \E i \in AddressMatches(loc[p].ip) :
                           Goto(p, "su_attach", [loc[p] EXCEPT !.att = 0, !.ip = NoId, !.tgt = i])
                    ELSE ServerUpdate_UserDataStep(p, [loc[p] EXCEPT !.miss = TRUE])
               ELSE IF AttachedTo(srvId[p]) # {}
                    THEN \E i \in AttachedTo(srvId[p]) :
                           Goto(p, "su_detach", [loc[p] EXCEPT !.att = 0, !.tgt = i])
                    ELSE ServerUpdate_UserDataStep(p, loc[p])
            /\ UNCHANGED <<mu, servers, userdata, pool, srvId, ipId>>
       ELSE /\ Return(p, o, loc[p])
            /\ UNCHANGED <<servers, userdata, pool, srvId, ipId>>

\* retry(AttachIP(ip.ID, d.Id())); break.
resourceScalewayServerUpdate_AttachIP(p) ==
  /\ pc[p] = "su_attach"
  /\ \E o \in RetryOutcomes(loc[p].att) :
       IF o = "again" THEN Again(p)
       ELSE IF o = "answer" /\ IPExists(loc[p].tgt) /\ ServerExists(srvId[p])
       THEN /\ pool' = [pool EXCEPT ![loc[p].tgt] = srvId[p]]
            /\ ServerUpdate_UserDataStep(p, [loc[p] EXCEPT !.nact = @ + 1])
            /\ UNCHANGED <<mu, servers, userdata, srvId, ipId>>
       ELSE /\ Return(p, IF o = "answer" THEN "notfound" ELSE o,
                      [loc[p] EXCEPT !.nact = @ + 1])
            /\ UNCHANGED <<servers, userdata, pool, srvId, ipId>>

\* retry(DetachIP(ip.ID)); break.
resourceScalewayServerUpdate_DetachIP(p) ==
  /\ pc[p] = "su_detach"
  /\ \E o \in RetryOutcomes(loc[p].att) :
       IF o = "again" THEN Again(p)
       ELSE IF o = "answer" /\ IPExists(loc[p].tgt)
       THEN /\ pool' = [pool EXCEPT ![loc[p].tgt] = "free"]
            /\ ServerUpdate_UserDataStep(p, [loc[p] EXCEPT !.nact = @ + 1])
            /\ UNCHANGED <<mu, servers, userdata, srvId, ipId>>
       ELSE /\ Return(p, IF o = "answer" THEN "notfound" ELSE o,
                      [loc[p] EXCEPT !.nact = @ + 1])
            /\ UNCHANGED <<servers, userdata, pool, srvId, ipId>>

\* for ak := range am { if _, ok := m[ak]; !ok { DeleteUserdata } }
DeleteKeys(am, m) == {k \in UDKeys(am) : m[k] = NoVal}

\* for k, v := range m { av := am[k]; if av != v { PatchUserdata } }
\* (Variants: a key that is not observed is skipped; every key is patched.)
PatchKeys_NoCreate(am, m) == {k \in UDKeys(m) : am[k] # NoVal /\ am[k] # m[k]}

PatchKeys_Always(am, m) == UDKeys(m)

PatchKeys(am, m) == {k \in UDKeys(m) : am[k] # m[k]}

\* Where the user-data step goes with the calls l has left to make.
ServerUpdate_NextUserData(p, l) ==
  Goto(p, IF l.todoDel # {} THEN "su_del"
          ELSE IF l.todoPat # {} THEN "su_pat" ELSE "sr_get", l)

\* am, err := readUserDatas(scaleway, d.Id()), no retry(); then the diff
\* against the desired map.
resourceScalewayServerUpdate_readUserDatas(p) ==
  /\ pc[p] = "su_udread"
  /\ \E o \in DirectOutcomes :
       IF o = "answer" /\ ServerExists(srvId[p])
       THEN /\ ServerUpdate_NextUserData(p,
                 [loc[p] EXCEPT !.am = userdata[srvId[p]],
                                !.todoDel = DeleteKeys(userdata[srvId[p]], loc[p].m),
                                !.todoPat = PatchKeys(userdata[srvId[p]], loc[p].m)])
            /\ UNCHANGED <<mu, servers, userdata, pool, srvId, ipId>>
       ELSE /\ Return(p, IF o = "answer" THEN "notfound" ELSE o, loc[p])
            /\ UNCHANGED <<servers, userdata, pool, srvId, ipId>>

\* DeleteUserdata(d.Id(), ak, false), no retry(); an error aborts Update.
resourceScalewayServerUpdate_DeleteUserdata(p) ==
  /\ pc[p] = "su_del"
  /\ \E k \in loc[p].todoDel, o \in DirectOutcomes :
       IF o = "answer" /\ ServerExists(srvId[p])
       THEN /\ userdata' = [userdata EXCEPT ![srvId[p]][k] = NoVal]
            /\ ServerUpdate_NextUserData(p,
                 [loc[p] EXCEPT !.todoDel = @ \ {k}, !.calledDel = @ \cup {k}])
            /\ UNCHANGED <<mu, servers, pool, srvId, ipId>>
       ELSE /\ Return(p, IF o = "answer" THEN "notfound" ELSE o,
                      [loc[p] EXCEPT !.calledDel = @ \cup {k}])
            /\ UNCHANGED <<servers, userdata, pool, srvId, ipId>>

\* PatchUserdata(d.Id(), k, bv, false), no retry(); an error aborts Update.
resourceScalewayServerUpdate_PatchUserdata(p) ==
  /\ pc[p] = "su_pat"
  /\ \E k \in loc[p].todoPat, o \in DirectOutcomes :
       IF o = "answer" /\ ServerExists(srvId[p])
       THEN /\ userdata' = [userdata EXCEPT ![srvId[p]][k] = loc[p].m[k]]
            /\ ServerUpdate_NextUserData(p,
                 [loc[p] EXCEPT !.todoPat = @ \ {k}, !.calledPat = @ \cup {k}])
            /\ UNCHANGED <<mu, servers, pool, srvId, ipId>>
       ELSE /\ Return(p, IF o = "answer" THEN "notfound" ELSE o,
                      [loc[p] EXCEPT !.calledPat = @ \cup {k}])
            /\ UNCHANGED <<servers, userdata, pool, srvId, ipId>>

\* ------------------------------------------------------------- server Delete

resourceScalewayServerDelete_Call(p) ==
  /\ srvId[p] # NoId
  /\ Call(p, "ServerDelete", "sd_lock", Loc0)
  /\ UNCHANGED <<srvId, ipId>>

resourceScalewayServerDelete_Lock(p) ==
  /\ pc[p] = "sd_lock"
  /\ Lock(p)
  /\ Goto(p, "sd_get", loc[p])
  /\ UNCHANGED <<servers, userdata, pool, srvId, ipId>>

\* retry(GetServer(d.Id())): any error, a 404 too, is returned; then the
\* strategy is picked from s.State.
resourceScalewayServerDelete_GetServer(p) ==
  /\ pc[p] = "sd_get"
  /\ \E o \in RetryOutcomes(loc[p].att) :
       IF o = "again" THEN Again(p)
       ELSE IF o = "answer" /\ ServerExists(srvId[p])
       THEN /\ Goto(p, IF servers[srvId[p]] = "stopped" THEN "sd_stopped" ELSE "sd_running",
                    [loc[p] EXCEPT !.att = 0])
            /\ UNCHANGED <<mu, servers, userdata, pool, srvId, ipId>>
       ELSE /\ Return(p, IF o = "answer" THEN "notfound" ELSE o, loc[p])
            /\ UNCHANGED <<servers, userdata, pool, srvId, ipId>>

\* The provider's state once server s is deleted.
ServerGone(s) ==
  /\ servers' = [servers EXCEPT ![s] = "absent"]
  /\ userdata' = [userdata EXCEPT ![s] = EmptyUD]
  /\ pool' = Released(s)

\* return deleteStoppedServer(scaleway, s): the result is returned as it is.
resourceScalewayServerDelete_Stopped(p) ==
  /\ pc[p] = "sd_stopped"
  /\ \E o \in DirectOutcomes :
       IF o = "answer" /\ ServerExists(srvId[p])
       THEN /\ ServerGone(srvId[p])
            /\ Return(p, "nil", loc[p])
            /\ UNCHANGED <<srvId, ipId>>
       ELSE /\ Return(p, IF o = "answer" THEN "notfound" ELSE o, loc[p])
            /\ UNCHANGED <<servers, userdata, pool, srvId, ipId>>

\* err = deleteRunningServer(scaleway, s); if err == nil { d.SetId("") }.
\* (Variant: d.SetId("") whatever err is.)
resourceScalewayServerDelete_Running_AlwaysUnsets(p) ==
  /\ pc[p] = "sd_running"
  /\ \E o \in DirectOutcomes :
       IF o = "answer" /\ ServerExists(srvId[p])
       THEN /\ ServerGone(srvId[p])
            /\ srvId' = [srvId EXCEPT ![p] = NoId]
            /\ Return(p, "nil", loc[p])
            /\ UNCHANGED ipId
       ELSE /\ srvId' = [srvId EXCEPT ![p] = NoId]
            /\ Return(p, IF o = "answer" THEN "notfound" ELSE o, loc[p])
            /\ UNCHANGED <<servers, userdata, pool, ipId>>

resourceScalewayServerDelete_Running(p) ==
  /\ pc[p] = "sd_running"
  /\ \E o \in DirectOutcomes :
       IF o = "answer" /\ ServerExists(srvId[p])
       THEN /\ ServerGone(srvId[p])
            /\ srvId' = [srvId EXCEPT ![p] = NoId]
            /\ Return(p, "nil", loc[p])
            /\ UNCHANGED ipId
       ELSE /\ Return(p, IF o = "answer" THEN "notfound" ELSE o, loc[p])
            /\ UNCHANGED <<servers, userdata, pool, srvId, ipId>>

\* ------------------------------------------------------------- IP verbs

resourceScalewayIPCreate_Call(p) ==
  /\ ipId[p] = NoId
  /\ Call(p, "IPCreate", "ic_lock", Loc0)
  /\ UNCHANGED <<srvId, ipId>>

\* mu.Lock() before NewIP.  (Variant: NewIP is called without the mutex.)
resourceScalewayIPCreate_Lock_Skipped(p) ==
  /\ pc[p] = "ic_lock"
  /\ Goto(p, "ic_new", loc[p])
  /\ UNCHANGED <<mu, servers, userdata, pool, srvId, ipId>>

resourceScalewayIPCreate_Lock(p) ==
  /\ pc[p] = "ic_lock"
  /\ Lock(p)
  /\ Goto(p, "ic_new", loc[p])
  /\ UNCHANGED <<servers, userdata, pool, srvId, ipId>>

\* retry(NewIP()); mu.Unlock(); on success d.SetId and on to IPUpdate.
\* (Variant: Create calls IPUpdate with the mutex still locked.)
resourceScalewayIPCreate_NewIP_KeepsLock(p) ==
  /\ pc[p] = "ic_new"
  /\ \E o \in RetryOutcomes(loc[p].att) :
       IF o = "again" THEN Again(p)
       ELSE IF o = "answer"
       THEN /\ pool' = [pool EXCEPT ![NewIPId(p)] = "free"]
            /\ ipId' = [ipId EXCEPT ![p] = NewIPId(p)]
            /\ Goto(p, "iu_lock", [loc[p] EXCEPT !.att = 0])
            /\ UNCHANGED <<mu, servers, userdata, srvId>>
       ELSE /\ mu' = NoProc
            /\ ReturnCore(p, o, loc[p])
            /\ UNCHANGED <<servers, userdata, pool, srvId, ipId>>

resourceScalewayIPCreate_NewIP(p) ==
  /\ pc[p] = "ic_new"
  /\ \E o \in RetryOutcomes(loc[p].att) :
       IF o = "again" THEN Again(p)
       ELSE IF o = "answer"
       THEN /\ pool' = [pool EXCEPT ![NewIPId(p)] = "free"]
            /\ ipId' = [ipId EXCEPT ![p] = NewIPId(p)]
            /\ mu' = NoProc
            /\ Goto(p, "iu_lock", [loc[p] EXCEPT !.att = 0])
            /\ UNCHANGED <<servers, userdata, srvId>>
       ELSE /\ mu' = NoProc
            /\ ReturnCore(p, o, loc[p])
            /\ UNCHANGED <<servers, userdata, pool, srvId, ipId>>

resourceScalewayIPUpdate_Call(p) ==
  /\ ipId[p] # NoId
  /\ Call(p, "IPUpdate", "iu_lock", Loc0)
  /\ UNCHANGED <<srvId, ipId>>

\* mu.Lock(); then d.HasChange("server") and d.Get("server") pick the branch.
resourceScalewayIPUpdate_Lock(p) ==
  /\ pc[p] = "iu_lock"
  /\ Lock(p)
  /\ \E hc \in BOOLEAN, s \in ServerIds \cup {NoId} :
       Goto(p, IF ~hc THEN "ir_get" ELSE IF s # NoId THEN "iu_attach" ELSE "iu_detach",
            [loc[p] EXCEPT !.srv = IF hc THEN s ELSE NoId])
  /\ UNCHANGED <<servers, userdata, pool, srvId, ipId>>

\* retry(AttachIP(d.Id(), server)), then Read.
resourceScalewayIPUpdate_AttachIP(p) ==
  /\ pc[p] = "iu_attach"
  /\ \E o \in RetryOutcomes(loc[p].att) :
       IF o = "again" THEN Again(p)
       ELSE IF o = "answer" /\ IPExists(ipId[p]) /\ ServerExists(loc[p].srv)
       THEN /\ pool' = [pool EXCEPT ![ipId[p]] = loc[p].srv]
            /\ Goto(p, "ir_get", ForRead(loc[p]))
            /\ UNCHANGED <<mu, servers, userdata, srvId, ipId>>
       ELSE /\ Return(p, IF o = "answer" THEN "notfound" ELSE o, loc[p])
            /\ UNCHANGED <<servers, userdata, pool, srvId, ipId>>

\* return retry(DetachIP(d.Id())): no Read follows.
resourceScalewayIPUpdate_DetachIP(p) ==
  /\ pc[p] = "iu_detach"
  /\ \E o \in RetryOutcomes(loc[p].att) :
       IF o = "again" THEN Again(p)
       ELSE IF o = "answer" /\ IPExists(ipId[p])
       THEN /\ pool' = [pool EXCEPT ![ipId[p]] = "free"]
            /\ Return(p, "nil", loc[p])
            /\ UNCHANGED <<servers, userdata, srvId, ipId>>
       ELSE /\ Return(p, IF o = "answer" THEN "notfound" ELSE o, loc[p])
            /\ UNCHANGED <<servers, userdata, pool, srvId, ipId>>

resourceScalewayIPRead_Call(p) ==
  /\ ipId[p] # NoId
  /\ Call(p, "IPRead", "ir_get", Loc0)
  /\ UNCHANGED <<srvId, ipId>>

\* Importer (schema.ImportStatePassthrough), as for the server.
resourceScalewayIP_Import(p) ==
  /\ ipId[p] = NoId
  /\ ipId' = [ipId EXCEPT ![p] = NewIPId(p)]
  /\ Call(p, "IPRead", "ir_get", Loc0)
  /\ UNCHANGED srvId

\* retry(GetIP(d.Id())); a 404 clears the Identifier and is no error.
resourceScalewayIPRead(p) ==
  /\ pc[p] = "ir_get"
  /\ \E o \in RetryOutcomes(loc[p].att) :
       IF o = "again" THEN Again(p)
       ELSE IF o = "answer" /\ IPExists(ipId[p])
       THEN /\ Return(p, "nil", loc[p])
            /\ UNCHANGED <<servers, userdata, pool, srvId, ipId>>
       ELSE IF o = "answer"
       THEN /\ ipId' = [ipId EXCEPT ![p] = NoId]
            /\ Return(p, "nil", [loc[p] EXCEPT !.nf = TRUE])
            /\ UNCHANGED <<servers, userdata, pool, srvId>>
       ELSE /\ Return(p, o, loc[p])
            /\ UNCHANGED <<servers, userdata, pool, srvId, ipId>>

resourceScalewayIPDelete_Call(p) ==
  /\ ipId[p] # NoId
  /\ Call(p, "IPDelete", "id_lock", Loc0)
  /\ UNCHANGED <<srvId, ipId>>

resourceScalewayIPDelete_Lock(p) ==
  /\ pc[p] = "id_lock"
  /\ Lock(p)
  /\ Goto(p, "id_del", loc[p])
  /\ UNCHANGED <<servers, userdata, pool, srvId, ipId>>

\* retry(DeleteIP(d.Id())); on success d.SetId("").
resourceScalewayIPDelete(p) ==
  /\ pc[p] = "id_del"
  /\ \E o \in RetryOutcomes(loc[p].att) :
       IF o = "again" THEN Again(p)
       ELSE IF o = "answer" /\ IPExists(ipId[p])
       THEN /\ pool' = [pool EXCEPT ![ipId[p]] = "absent"]
            /\ ipId' = [ipId EXCEPT ![p] = NoId]
            /\ Return(p, "nil", loc[p])
            /\ UNCHANGED <<servers, userdata, srvId>>
       ELSE /\ Return(p, IF o = "answer" THEN "notfound" ELSE o, loc[p])
            /\ UNCHANGED <<servers, userdata, pool, srvId, ipId>>

\* ------------------------------------------------------------- rule verbs

\* The payload Create sends for a declared rule, and what Read sets in the
\* record from the provider's rule.
NewSecurityGroupRule(id, d) ==
  [ ID |-> id, Action |-> d.action, Direction |-> d.direction,
    IPRange |-> d.ip_range, Protocol |-> d.protocol, DestPortFrom |-> d.port ]

\* (Variant: Read leaves the port of the record unset.)
RuleAttributes_NoPort(r) ==
  [ action |-> r.Action, direction |-> r.Direction, ip_range |-> r.IPRange,
    protocol |-> r.Protocol, port |-> 0 ]

RuleAttributes(r) ==
  [ action |-> r.Action, direction |-> r.Direction, ip_range |-> r.IPRange,
    protocol |-> r.Protocol, port |-> r.DestPortFrom ]

RuleExists(id) == id \in RuleIds /\ sgr.rules[id] # NoRule

\* Create: under the mutex, retry(create the rule); d.SetId; then Read.
resourceScalewaySecurityGroupRuleCreate_Call(p) ==
  /\ sgr.id[p] = NoId
  /\ Call(p, "RuleCreate", "gc_lock", Loc0)
  /\ UNCHANGED <<srvId, ipId>>

resourceScalewaySecurityGroupRuleCreate_Lock(p) ==
  /\ pc[p] = "gc_lock"
  /\ Lock(p)
  /\ Goto(p, "gc_post", loc[p])
  /\ UNCHANGED <<servers, userdata, pool, srvId, ipId>>

resourceScalewaySecurityGroupRuleCreate_Post(p) ==
  /\ pc[p] = "gc_post"
  /\ \E o \in RetryOutcomes(loc[p].att) :
       IF o = "again" THEN Again(p)
       ELSE IF o = "answer"
       THEN /\ \E d \in RuleDecls :
                 sgr' = [sgr EXCEPT !.rules[NewRuleId(p)] = NewSecurityGroupRule(NewRuleId(p), d),
                                    !.id[p] = NewRuleId(p),
                                    !.decl[p] = d]
            /\ Moved(p, "gr_get", [loc[p] EXCEPT !.att = 0])
            /\ UNCHANGED <<mu, servers, userdata, pool, srvId, ipId>>
       ELSE /\ Return(p, o, loc[p])
            /\ UNCHANGED <<servers, userdata, pool, srvId, ipId>>

\* Read: retry(fetch the rule); a 404 clears the Identifier and is no error.
resourceScalewaySecurityGroupRuleRead_Call(p) ==
  /\ sgr.id[p] # NoId
  /\ Call(p, "RuleRead", "gr_get", Loc0)
  /\ UNCHANGED <<srvId, ipId>>

resourceScalewaySecurityGroupRuleRead(p) ==
  /\ pc[p] = "gr_get"
  /\ \E o \in RetryOutcomes(loc[p].att) :
       IF o = "again" THEN Again(p)
       ELSE IF o = "answer"
       THEN /\ sgr' = IF RuleExists(sgr.id[p])
                      THEN [sgr EXCEPT !.attrs[p] = RuleAttributes(sgr.rules[sgr.id[p]])]
                      ELSE [sgr EXCEPT !.id[p] = NoId]
            /\ Returned(p, "nil", [loc[p] EXCEPT !.nf = ~RuleExists(sgr.id[p])])
            /\ mu' = DeferredUnlock(p)
            /\ UNCHANGED <<servers, userdata, pool, srvId, ipId>>
       ELSE /\ Return(p, o, loc[p])
            /\ UNCHANGED <<servers, userdata, pool, srvId, ipId>>

\* Delete: under the mutex, retry(remove the rule); then the Identifier is cleared.
resourceScalewaySecurityGroupRuleDelete_Call(p) ==
  /\ sgr.id[p] # NoId
  /\ Call(p, "RuleDelete", "gd_lock", Loc0)
  /\ UNCHANGED <<srvId, ipId>>

resourceScalewaySecurityGroupRuleDelete_Lock(p) ==
  /\ pc[p] = "gd_lock"
  /\ Lock(p)
  /\ Goto(p, "gd_del", loc[p])
  /\ UNCHANGED <<servers, userdata, pool, srvId, ipId>>

resourceScalewaySecurityGroupRuleDelete(p) ==
  /\ pc[p] = "gd_del"
  /\ \E o \in RetryOutcomes(loc[p].att) :
       IF o = "again" THEN Again(p)
       ELSE IF o = "answer" /\ RuleExists(sgr.id[p])
       THEN /\ sgr' = [sgr EXCEPT !.rules[sgr.id[p]] = NoRule,
                                  !.id[p] = NoId,
                                  !.decl[p] = NoRuleDecl,
                                  !.attrs[p] = NoRuleDecl]
            /\ Returned(p, "nil", loc[p])
            /\ mu' = DeferredUnlock(p)
            /\ UNCHANGED <<servers, userdata, pool, srvId, ipId>>
       ELSE /\ Return(p, IF o = "answer" THEN "notfound" ELSE o, loc[p])
            /\ UNCHANGED <<servers, userdata, pool, srvId, ipId>>

\* ------------------------------------------------------------- specification

Next ==
  \E p \in Procs :
       \/ resourceScalewayServerRead_Call(p)
       \/ resourceScalewayServer_Import(p)
       \/ resourceScalewayIP_Import(p)
       \/ resourceScalewayServerRead_GetServer(p)
       \/ readUserDatas(p)
       \/ resourceScalewayServerCreate_Call(p)
       \/ resourceScalewayServerCreate_Lock(p)
       \/ resourceScalewayServerCreate_PostVolume(p)
       \/ resourceScalewayServerCreate_PostServer(p)
       \/ resourceScalewayServerCreate_PatchUserdata(p)
       \/ poweronServer(p)
       \/ attachIP_GetIPS(p)
       \/ attachIP_AttachIP(p)
       \/ resourceScalewayServerUpdate_Call(p)
       \/ resourceScalewayServerUpdate_Lock(p)
       \/ resourceScalewayServerUpdate_PatchServer(p)
       \/ resourceScalewayServerUpdate_GetIPS(p)
       \/ resourceScalewayServerUpdate_AttachIP(p)
       \/ resourceScalewayServerUpdate_DetachIP(p)
       \/ resourceScalewayServerUpdate_readUserDatas(p)
       \/ resourceScalewayServerUpdate_DeleteUserdata(p)
       \/ resourceScalewayServerUpdate_PatchUserdata(p)
       \/ resourceScalewayServerDelete_Call(p)
       \/ resourceScalewayServerDelete_Lock(p)
       \/ resourceScalewayServerDelete_GetServer(p)
       \/ resourceScalewayServerDelete_Stopped(p)
       \/ resourceScalewayServerDelete_Running(p)
       \/ resourceScalewayIPCreate_Call(p)
       \/ resourceScalewayIPCreate_Lock(p)
       \/ resourceScalewayIPCreate_NewIP(p)
       \/ resourceScalewayIPUpdate_Call(p)
       \/ resourceScalewayIPUpdate_Lock(p)
       \/ resourceScalewayIPUpdate_AttachIP(p)
       \/ resourceScalewayIPUpdate_DetachIP(p)
       \/ resourceScalewayIPRead_Call(p)
       \/ resourceScalewayIPRead(p)
       \/ resourceScalewayIPDelete_Call(p)
       \/ resourceScalewayIPDelete_Lock(p)
       \/ resourceScalewayIPDelete(p)

\* Every caller, concurrently.
Spec == Init /\ [][Next]_vars

\* One caller, with every declaration.
SpecSeq == InitSeq /\ [][Next]_vars

\* Between two calls of the dispatcher a server or an IP is removed at the
\* provider by someone else; the records keep their Identifiers.
ProviderRemovesServer ==
  /\ \A p \in Procs : pc[p] = "idle"
  /\ \E s \in ServerIds : ServerExists(s) /\ ServerGone(s)
  /\ last' = Last0
  /\ UNCHANGED <<config, mu, srvId, ipId, pc, verb, loc, sgr>>

ProviderRemovesIP ==
  /\ \A p \in Procs : pc[p] = "idle"
  /\ \E i \in IPIds : IPExists(i) /\ pool' = [pool EXCEPT ![i] = "absent"]
  /\ last' = Last0
  /\ UNCHANGED <<config, mu, servers, userdata, srvId, ipId, pc, verb, loc, sgr>>

NextDrift == Next \/ ProviderRemovesServer \/ ProviderRemovesIP

\* One caller, whose records declare volumes of the sizes at the ends of the range.
InitVol == Start /\ config = Boundary
SpecVol == InitVol /\ [][Next]_vars
InitPatch == Start /\ config = Patching
InitFair == Start /\ config = ServerAndIP

\* One caller, with a security-group rule record besides the other two.
NextRule ==
  \/ Next
  \/ \E p \in Procs :
       \/ resourceScalewaySecurityGroupRuleCreate_Call(p)
       \/ resourceScalewaySecurityGroupRuleCreate_Lock(p)
       \/ resourceScalewaySecurityGroupRuleCreate_Post(p)
       \/ resourceScalewaySecurityGroupRuleRead_Call(p)
       \/ resourceScalewaySecurityGroupRuleRead(p)
       \/ resourceScalewaySecurityGroupRuleDelete_Call(p)
       \/ resourceScalewaySecurityGroupRuleDelete_Lock(p)
       \/ resourceScalewaySecurityGroupRuleDelete(p)
InitRule == Start /\ config = WithRules
SpecRule == InitRule /\ [][NextRule]_vars
SpecPatch == InitPatch /\ [][Next]_vars

\* One caller, with every declaration, at a provider that others change too.
SpecDrift == InitSeq /\ [][NextDrift]_vars


\* ------------------------------------------------------------- properties

\* The Identifier of the record a verb works on.
RecordId(p, v) ==
  IF v \in {"ServerCreate", "ServerRead", "ServerUpdate", "ServerDelete"}
  THEN srvId[p] ELSE ipId[p]

\* C1: when the provider answered the Read's fetch-by-id (GetServer, GetIP)
\* with a 404, Read returned no error and the record's Identifier is empty.
C1_Read404IsNotAnError ==
  last.nf => last.err = "nil" /\ RecordId(last.proc, last.verb) = NoId

\* A server Read has just been answered 404 and has returned, while the other
\* caller's IP Read is about to fetch an IP the pool no longer holds.
C1_Witness ==
  /\ last.nf /\ last.verb = "ServerRead" /\ last.id0 # NoId
  /\ \E q \in Procs :
       /\ verb[q] = "IPRead" /\ pc[q] = "ir_get"
       /\ ipId[q] # NoId /\ ~IPExists(ipId[q])

\* The positions at which a verb is about to issue a mutating gateway call.
MutatingPCs ==
  { "sc_vol", "sc_post", "sc_ud", "sc_power", "sc_attach",
    "su_patch", "su_attach", "su_detach", "su_del", "su_pat",
    "sd_stopped", "sd_running", "ic_new", "iu_attach", "iu_detach", "id_del" }

\* C2: a verb issues a mutating gateway call only while it holds the mutex, so
\* at most one verb is inside a mutating section; a Read called on its own
\* never holds the mutex.
C2_MutationsUnderLock ==
  /\ \A p \in Procs : pc[p] \in MutatingPCs => mu = p
  /\ Cardinality({p \in Procs : pc[p] \in MutatingPCs}) <= 1
  /\ \A p \in Procs : verb[p] \in {"ServerRead", "IPRead"} => mu # p

\* One caller is about to attach inside server Update while the other waits
\* for the mutex in IP Create.
C2_Witness ==
  \E p, q \in Procs :
    /\ pc[p] = "su_attach" /\ mu = p
    /\ pc[q] = "ic_lock"

\* A caller has scanned the pool and has yet to issue the attach or detach.
InScanWindow(p) == pc[p] \in {"sc_attach", "su_attach", "su_detach"}

\* Every pool entry is unattached or attached to one server, a live one.
PoolWellFormed ==
  \A i \in IPIds :
    \/ pool[i] \in {"absent", "free"}
    \/ pool[i] \in ServerIds /\ servers[pool[i]] # "absent"

\* C3: between a reconciliation's pool scan and its attach no step of another
\* caller changes the pool, so the attach acts on the listing it scanned; and
\* in every state each IP is unattached or attached to exactly one server.
C3_AttachSeesSerialPool ==
  /\ []PoolWellFormed
  /\ [][\A p \in Procs :
          InScanWindow(p) /\ pc'[p] = pc[p] /\ loc'[p] = loc[p] => pool' = pool]_vars

\* Two servers are reconciled at once: one Update is between its scan and its
\* attach, the other server's Update waits for the mutex and its server
\* already holds a different entry of the same pool.
C3_Witness ==
  \E p, q \in Procs :
    /\ p # q
    /\ pc[p] = "su_attach"
    /\ pc[q] = "su_lock"
    /\ srvId[q] # srvId[p]
    /\ \E i \in IPIds : i # loc[p].tgt /\ pool[i] = srvId[q]

\* C4: a verb that took the mutex has released it when it returns, by
\* success or by error: an idle caller never holds it, and with every caller
\* idle it is free.
C4_LockReleasedOnReturn ==
  /\ \A p \in Procs : pc[p] = "idle" => mu # p
  /\ (\A p \in Procs : pc[p] = "idle") => mu = NoProc

\* A server Create has just returned the error of a step that ran under the
\* mutex after the server was created; nobody is running.
C4_Witness ==
  /\ \A p \in Procs : pc[p] = "idle"
  /\ last.verb = "ServerCreate" /\ last.err # "nil" /\ last.created
  /\ \E q \in Procs : q # last.proc /\ ipId[q] # NoId

\* C5 as stated: a server Create that returned an error left the Identifier unset.
C5_CreateErrorLeavesIdUnset ==
  last.verb = "ServerCreate" /\ last.err # "nil" => srvId[last.proc] = NoId

\* C5 amended: a server Create that returned an error left the Identifier
\* unset exactly when the error came before PostServer succeeded (from a volume
\* creation or the server creation); an error of a later step leaves the
\* Identifier set to the created server's id.
C5_CreateErrorIdSetIffServerCreated ==
  last.verb = "ServerCreate" /\ last.err # "nil" =>
    /\ ~last.created => srvId[last.proc] = NoId
    /\ last.created => srvId[last.proc] = NewServerId(last.proc)

\* A Create has failed after PostServer had succeeded.
C5_Witness ==
  last.verb = "ServerCreate" /\ last.err # "nil" /\ last.created

\* C6: a Delete that returned nil left the Identifier empty, for the server
\* (both deletion strategies) and for the IP.
C6_DeleteClearsId ==
  last.verb \in {"ServerDelete", "IPDelete"} /\ last.err = "nil"
    => RecordId(last.proc, last.verb) = NoId

\* C7: an Update or a Delete, of a server or of an IP, that returned an error
\* left the Identifier the non-empty value it had when the verb was called.
C7_FailedUpdateDeleteKeepsId ==
  /\ last.verb \in {"ServerUpdate", "ServerDelete", "IPUpdate", "IPDelete"}
  /\ last.err # "nil"
  => /\ last.id0 # NoId
     /\ RecordId(last.proc, last.verb) = last.id0

\* A server Delete has failed on its running-state deletion.
C7_Witness ==
  /\ last.verb = "ServerDelete" /\ last.err = "transient"
  /\ ServerExists(srvId[last.proc]) /\ servers[srvId[last.proc]] = "running"

\* What the user-data diff is to do for observed am and desired m.
ExpectedDeletes(am, m) == UDKeys(am) \ UDKeys(m)
ExpectedPatches(am, m) ==
  {k \in Keys : m[k] # NoVal /\ (am[k] = NoVal \/ am[k] # m[k])}

\* The user-data step of p's Update has been entered, or is over.
InUserDataStep(p) ==
  /\ verb[p] = "ServerUpdate" /\ loc[p].hcUD
  /\ pc[p] \in {"su_del", "su_pat", "sr_get"}

\* C8: the user-data step calls DeleteUserdata only for keys observed and not
\* desired, PatchUserdata only for desired keys whose observed value is
\* missing or different; when every call has succeeded it has made exactly
\* these calls, and the observed set equals the desired map.
C8_UserDataDiff ==
  \A p \in Procs :
    InUserDataStep(p) =>
      /\ loc[p].calledDel \subseteq ExpectedDeletes(loc[p].am, loc[p].m)
      /\ loc[p].calledPat \subseteq ExpectedPatches(loc[p].am, loc[p].m)
      /\ pc[p] = "sr_get" =>
           /\ loc[p].calledDel = ExpectedDeletes(loc[p].am, loc[p].m)
           /\ loc[p].calledPat = ExpectedPatches(loc[p].am, loc[p].m)
           /\ userdata[srvId[p]] = loc[p].m

\* A step has deleted one key, patched another, and is over; the observed set
\* it started from was no declared map (an earlier run had failed half way).
C8_Witness ==
  \E p \in Procs :
    /\ InUserDataStep(p) /\ pc[p] = "sr_get"
    /\ loc[p].calledDel # {} /\ loc[p].calledPat # {}
    /\ loc[p].am \notin DesiredUD

\* C9 as stated: the second of two Updates in a row with the same desired
\* user_data issues no provider call at all.
C9_SecondRunIssuesNoCall ==
  \A p \in Procs :
    loc[p].rerun => pc[p] \in {"su_lock", "su_patch"} /\ loc[p].att = 0

\* C9 amended: when an Update that ran the user-data step returned nil and
\* Update runs again on the record with the same desired user_data, the
\* second run calls neither DeleteUserdata nor PatchUserdata (it still calls
\* PatchServer and the read calls).
C9_SecondRunIssuesNoUserDataCall ==
  \A p \in Procs :
    loc[p].rerun =>
      /\ pc[p] \notin {"su_del", "su_pat"}
      /\ loc[p].calledDel = {} /\ loc[p].calledPat = {}

\* A second run with a non-empty map has been through its user-data step.
C9_Witness ==
  \E p \in Procs :
    /\ loc[p].rerun /\ loc[p].hcUD /\ pc[p] = "sr_get"
    /\ UDKeys(loc[p].m) = Keys /\ loc[p].am = loc[p].m

\* C10: the public-IP step issues at most one attach or detach per call of
\* the verb, and no attach when the pool entry with the desired address is
\* already attached to this server.
C10_OneActionNoRedundantAttach ==
  \A p \in Procs :
    /\ loc[p].nact <= 1
    /\ pc[p] \in {"sc_attach", "su_attach"} => pool[loc[p].tgt] # srvId[p]

\* Caller p returns from its verb in this step.
Returns(p) == pc[p] # "idle" /\ pc'[p] = "idle"

\* The error p returns in this step is the one poweronServer gave.
ReturnsPowerOnError(p) == last'.err = "poweronfail"

\* C11: every gateway call of the verbs goes through retry(), so a verb that
\* returns a retryable error has seen the failing call fail more than once: a
\* single transient failure never makes a verb return an error.  (The error
\* of poweronServer, whose calls are made outside these files, is left out.)
C11_EveryCallIsRetried ==
  [][\A p \in Procs :
       Returns(p) /\ last'.err = "transient" /\ ~ReturnsPowerOnError(p)
         => loc[p].att >= 1]_vars

\* The positions at which a verb issues a gateway call through retry().
RetriedPCs ==
  { "sc_vol", "sc_post", "sr_get", "su_patch", "su_getips", "su_attach",
    "su_detach", "sd_get", "ic_new", "iu_attach", "iu_detach", "ir_get", "id_del" }

\* Caller p makes one attempt of a retried call in this step.
Attempts(p) ==
  pc[p] \in RetriedPCs /\ (pc'[p] # pc[p] \/ loc'[p] # loc[p])

\* C12: retry() makes attempt N+1 only after N retryable failures and only
\* within the configured maximum; the call is made again only while budget is
\* left; an attempt that succeeds or gets a terminal error (a 404) ends the
\* retry at once, after N+1 attempts; and a retryable error is returned to the
\* verb only when the budget is spent, after exactly the maximum of attempts.
C12_RetryPolicy ==
  [][\A p \in Procs :
       Attempts(p) =>
         LET n == loc[p].att
             again == pc'[p] = pc[p] /\ loc'[p].att = n + 1
         IN  /\ n + 1 <= config.attempts
             /\ again => n + 1 < config.attempts
             /\ ~again => pc'[p] # pc[p] \/ loc'[p].att = 0
             /\ Returns(p) /\ last'.err = "transient" => n + 1 = config.attempts]_vars

\* NewIP has failed once and retry() is about to make its last attempt.
C12_Witness ==
  \E p \in Procs : pc[p] = "ic_new" /\ loc[p].att = MaxAttempts - 1 /\ loc[p].att >= 1

\* C13: a Delete, of a server or of an IP, that the provider answers with a
\* 404 is no failure: Delete never returns the 404 as an error (it returns nil
\* and leaves the Identifier empty).
C13_Delete404IsNotAnError ==
  last.verb \in {"ServerDelete", "IPDelete"} =>
    /\ last.err # "notfound"
    /\ last.err = "nil" /\ ~ServerExists(last.id0) /\ ~IPExists(last.id0)
         => RecordId(last.proc, last.verb) = NoId

\* The sizes the specification allows a volume to have.
SizeRange == 1..MaxSizeInGB

\* C14: validation accepts a declared size_in_gb exactly when it is within
\* 1..150, so Create only ever works on volumes of such sizes, and a
\* volume-creation call is only ever issued for such a size.
C14_VolumeSizeRange ==
  \A p \in Procs :
    /\ pc[p] = "sc_lock" =>
         \A i \in DOMAIN loc[p].vols : loc[p].vols[i] \in SizeRange
    /\ pc[p] = "sc_vol" => Head(loc[p].vols) \in SizeRange

\* The positions at which a verb waits for the mutex.
LockPCs == {"sc_lock", "su_lock", "sd_lock", "ic_lock", "iu_lock", "id_lock"}

\* Caller p finishes a mutating gateway call in this step (no retry follows).
CompletesMutatingCall(p) ==
  /\ pc[p] \in MutatingPCs
  /\ pc'[p] # pc[p] \/ (loc'[p].att = 0 /\ loc'[p] # loc[p])

\* C16 as stated: the mutex is held for the duration of one mutating gateway
\* call only: the step that finishes a mutating call leaves the mutex free
\* for the mutating call of another reconciliation.
C16_LockHeldForOneCallOnly ==
  [][\A p \in Procs : CompletesMutatingCall(p) => mu' # p]_vars

\* C16 amended: server Create, Update and Delete and IP Update and Delete hold
\* the mutex from their first step to their return, final Read included, so
\* between two mutating calls of one of them no other caller is at a mutating
\* call; only IP Create gives the mutex up after its one NewIP call, before
\* the IP Update it calls takes it again.
C16_LockHeldAcrossVerb ==
  \A p \in Procs :
    /\ pc[p] \notin LockPCs \cup {"idle"} /\ verb[p] \notin {"ServerRead", "IPRead"}
         => /\ mu = p
            /\ \A q \in Procs \ {p} : pc[q] \notin MutatingPCs
    /\ verb[p] = "IPCreate" /\ pc[p] = "iu_lock" => mu # p

\* A server Create is between its PostServer and its user-data write, and an
\* IP Create that has made its NewIP call waits for the mutex again.
C16_Witness ==
  \E p, q \in Procs :
    /\ pc[p] = "sc_ud" /\ mu = p
    /\ verb[q] = "IPCreate" /\ pc[q] = "iu_lock"

\* The stage of Create a position belongs to: volume creations, the server
\* creation, user-data writes, power-on, IP attach; 0 before, 6 after.
CreateStage(c) ==
  CASE c = "sc_lock" -> 0
    [] c = "sc_vol" -> 1
    [] c = "sc_post" -> 2
    [] c = "sc_ud" -> 3
    [] c = "sc_power" -> 4
    [] c \in {"sc_getips", "sc_attach"} -> 5
    [] OTHER -> 6

\* Every call of the stages before p's position has been issued.
EarlierStagesDone(p) ==
  /\ CreateStage(pc[p]) \in 2..5 => loc[p].vols = <<>>
  /\ CreateStage(pc[p]) \in 3..5 => srvId[p] = NewServerId(p)
  /\ CreateStage(pc[p]) \in 4..5 => loc[p].todoPat = {}
  /\ CreateStage(pc[p]) \in 4..5 => loc[p].st \notin {"", "stopped"}
  /\ CreateStage(pc[p]) = 5 => loc[p].ip # NoId

\* C17: within one server Create the calls are issued stage by stage, volume
\* creations, server creation, user-data writes, power-on, IP attach: Create
\* never goes back to an earlier stage, it reaches a stage only when every call
\* of the earlier ones has been issued, and it reaches power-on and IP attach
\* only when the declared state is not stopped.
C17_CreateCallOrder ==
  /\ [](\A p \in Procs : verb[p] = "ServerCreate" => EarlierStagesDone(p))
  /\ [][\A p \in Procs :
          verb[p] = "ServerCreate" /\ verb'[p] = "ServerCreate"
            => CreateStage(pc'[p]) >= CreateStage(pc[p])]_vars

\* Create has been through every stage and is about to attach the declared IP.
C17_Witness ==
  \E p \in Procs :
    /\ verb[p] = "ServerCreate" /\ pc[p] = "sc_attach"
    /\ userdata[srvId[p]] # EmptyUD /\ servers[srvId[p]] = "running"

\* The payload the claim describes: a field is set exactly for a changed
\* attribute, and it then carries the declared value.
ChangedAttributes(ch, d) ==
  [ name |-> IF "name" \in ch THEN Ptr(d.name) ELSE Nil(""),
    tags |-> IF "tags" \in ch THEN Ptr(d.tags) ELSE Nil(<<>>),
    enable_ipv6 |-> IF "enable_ipv6" \in ch THEN Ptr(d.enable_ipv6) ELSE Nil(FALSE),
    dynamic_ip_required |->
      IF "dynamic_ip_required" \in ch THEN Ptr(d.dynamic_ip_required) ELSE Nil(FALSE),
    security_group |->
      IF "security_group" \in ch THEN Ptr(d.security_group) ELSE Nil("") ]

\* C18: Update makes its one PatchServer call with a payload that carries
\* every changed attribute, a change of tags to the empty list included, and
\* no unchanged one.
C18_PatchCarriesEveryChange ==
  \A p \in Procs :
    pc[p] = "su_patch" =>
      loc[p].req = ChangedAttributes(loc[p].ch, loc[p].d)

\* Create's attachIP failed in this step of p: the address was not found in
\* the pool, or GetIPS or AttachIP did not succeed.
AttachFails(p) ==
  /\ verb[p] = "ServerCreate"
  /\ Returns(p)
  /\ \/ pc[p] = "sc_getips"
     \/ pc[p] = "sc_attach" /\ pool'[loc[p].tgt] # srvId[p]

\* C19: in Create a failed power-on does not keep the declared public IP from
\* being attached; when the attach fails too its error is the one returned;
\* when only the power-on failed Create returns the power-on error; and in
\* each of these cases the server is not deleted and the Identifier stays set.
C19_PowerOnErrorIsDeferred ==
  [][\A p \in Procs :
       /\ pc[p] = "sc_power" /\ loc[p].ip # NoId
            => pc'[p] = "sc_getips" /\ loc'[p].perr \in {"nil", "poweronfail"}
       /\ pc[p] = "sc_power" /\ loc[p].ip = NoId /\ servers'[srvId[p]] # "running"
            => Returns(p) /\ last'.err = "poweronfail"
       /\ AttachFails(p) => last'.err \in {"noip", "transient", "notfound"}
       /\ pc[p] = "sc_attach" /\ loc[p].perr # "nil" /\ ~AttachFails(p)
            => Returns(p) /\ last'.err = loc[p].perr
       /\ pc[p] \in {"sc_power", "sc_getips", "sc_attach"} /\ Returns(p)
            => /\ last'.err # "nil"
               /\ srvId'[p] = NewServerId(p)
               /\ servers' = servers]_vars

\* The power-on has failed and Create is none the less about to attach the
\* declared address.
C19_Witness ==
  \E p \in Procs :
    /\ verb[p] = "ServerCreate" /\ pc[p] = "sc_attach"
    /\ loc[p].perr = "poweronfail"
    /\ srvId[p] = NewServerId(p) /\ ServerExists(srvId[p])

\* C20, the safety half: no caller waits for the mutex while it holds it.
C20_NoReentrantLock ==
  \A p \in Procs : pc[p] \in LockPCs => mu # p

\* Caller p, inside a verb, takes its next step.
Step(p) ==
  /\ pc[p] # "idle"
  /\ Next
  /\ pc'[p] # pc[p] \/ loc'[p] # loc[p]

\* Caller p, waiting for the mutex, gets it.
LockStep(p) == pc[p] \in LockPCs /\ Step(p)

\* A server record and an IP record reconciled concurrently.  Every goroutine
\* inside a verb is scheduled and every gateway call it makes ends (weak
\* fairness of its steps); sync.Mutex hands the mutex to a goroutine that
\* keeps waiting for it (strong fairness of its Lock).
SpecFair ==
  /\ InitFair
  /\ [][Next]_vars
  /\ \A p \in Procs : WF_vars(Step(p)) /\ SF_vars(LockStep(p))

\* C20: no caller waits for the mutex while it holds it, and every verb that
\* was called returns.
C20_EveryVerbReturns ==
  /\ [](\A p \in Procs : pc[p] \in LockPCs => mu # p)
  /\ \A p \in Procs : (pc[p] # "idle") ~> (pc[p] = "idle")

\* IP Update, called by an IP Create that has released the mutex, waits for
\* the mutex while a server verb holds it.
C20_Witness ==
  \E p, q \in Procs :
    /\ verb[p] = "IPCreate" /\ pc[p] = "iu_lock"
    /\ mu = q /\ q # p /\ pc[q] # "idle"

\* The checks of the acceptance test on caller p's rule record: the record
\* has an Identifier and the provider holds a rule with that Identifier; the
\* provider's rule has the expected fields.
testAccCheckScalewaySecurityGroupRuleExists(p) ==
  /\ sgr.id[p] # NoId
  /\ RuleExists(sgr.id[p])
  /\ sgr.rules[sgr.id[p]].ID = sgr.id[p]

testAccCheckScalewaySecurityGroupRuleAttributes(p, d) ==
  /\ RuleExists(sgr.id[p])
  /\ LET r == sgr.rules[sgr.id[p]]
     IN  /\ r.Action = d.action
         /\ r.Direction = d.direction
         /\ r.IPRange = d.ip_range
         /\ r.Protocol = d.protocol
         /\ r.DestPortFrom = d.port

NoEntryHasAddress(p) == loc[p].ip # NoId /\ AddressMatches(loc[p].ip) = {}

\* C21: when no entry of the pool has the declared public IP address, Create
\* makes no attach call and returns an error, with the server created and the
\* Identifier set; Update makes no attach call either but goes on as if the
\* address were attached, and returns the result of the steps that follow,
\* nil when they succeed.
C21_CreateFailsUpdateIgnores ==
  /\ [][\A p \in Procs :
          /\ pc[p] = "sc_getips" /\ NoEntryHasAddress(p)
               => /\ Returns(p)
                  /\ last'.err \in {"noip", "transient"}
                  /\ last'.created
                  /\ srvId'[p] = NewServerId(p) /\ ServerExists(srvId'[p])
                  /\ loc[p].nact = 0 /\ pool' = pool
          /\ pc[p] = "su_getips" /\ NoEntryHasAddress(p)
               => /\ pool' = pool
                  /\ \/ pc'[p] = "su_getips" /\ loc'[p].att = loc[p].att + 1
                     \/ Returns(p) /\ last'.err = "transient"
                     \/ /\ pc'[p] = IF loc[p].hcUD THEN "su_udread" ELSE "sr_get"
                        /\ loc'[p].miss /\ loc'[p].nact = 0]_vars
  /\ [](\A p \in Procs :
         /\ loc[p].miss => verb[p] = "ServerUpdate" /\ loc[p].nact = 0
         /\ last.miss => last.verb = "ServerUpdate" /\ last.err # "noip")

\* An Update whose declared address no entry of the pool has has returned
\* nil, and still no entry has an address attached to the server.
C21_Witness ==
  /\ last.verb = "ServerUpdate" /\ last.miss /\ last.err = "nil"
  /\ ServerExists(last.id0)
  /\ AttachedTo(last.id0) = {}

====
